---- MODULE Spec2Model ----
(***************************************************************************)
(* Model of the survey analysis core of LSparrow:                          *)
(*   app/services/csv_processor.py  (CSVProcessor)                         *)
(*   app/services/statistics.py     (StatisticsCalculator)                 *)
(*                                                                         *)
(* Every operation of the core is a synchronous call.  A call is modelled  *)
(* by one action that takes the call's inputs (state variables chosen in   *)
(* Init) to its returned value or raised error (variable ret).             *)
(*                                                                         *)
(* Numbers.  A number is a record [nan, a, k]: nan marks NaN (a missing    *)
(* numeric cell); otherwise its value is a/Unit + k*1e-11.  The k part     *)
(* stands for a difference far below the 1e-10 gate of calculate and far   *)
(* below the rounding step, so that a sample can have a standard deviation *)
(* that is positive and still not above 1e-10.  Binary floating point      *)
(* rounding error is not modelled: arithmetic is exact.                    *)
(***************************************************************************)
EXTENDS Integers, Sequences, FiniteSets, TLC

VARIABLES
    pc,                          \* "call" before the modelled call, "done" after it
    file_content,                \* the uploaded stream (BinaryIO)
    selected_grouping_columns,   \* process(): the caller's ordered list of names
    data,                        \* calculate(): the numeric series passed in
    series,                      \* is_likert_column(): the column passed in
    scipy_finite,                \* whether scipy.stats returns finite values
    ret                          \* what the call returned or raised

vars == <<pc, file_content, selected_grouping_columns, data, series,
          scipy_finite, ret>>

(***************************************************************************)
(* Bounds of the model.                                                    *)
(***************************************************************************)
StreamLen == 2      \* length of a stream in bytes (offsets 0..StreamLen)
MaxSample == 5      \* longest series handed to calculate
MaxRows == 2        \* most rows of an exhaustively enumerated table
MaxSelected == 2    \* longest list of selected grouping columns

(***************************************************************************)
(* Sequence helpers.                                                       *)
(***************************************************************************)
RECURSIVE SelectSeqIdx(_, _, _)
\* the subsequence of s at the positions i >= from with keep[i]
SelectSeqIdx(s, keep, from) ==
    IF from > Len(s) THEN <<>>
    ELSE (IF keep[from] THEN <<s[from]>> ELSE <<>>) \o SelectSeqIdx(s, keep, from + 1)

Range(s) == {s[i] : i \in 1..Len(s)}

RECURSIVE SeqsUpTo(_, _)
\* all sequences over S of length 0..n
SeqsUpTo(S, n) ==
    IF n = 0 THEN {<<>>}
    ELSE LET shorter == SeqsUpTo(S, n - 1)
         IN  shorter \cup {Append(s, x) : s \in {t \in shorter : Len(t) = n - 1}, x \in S}

\* the first occurrences of s, in order (pandas unique(): order of appearance)
RECURSIVE UniqueFrom(_, _, _)
UniqueFrom(s, i, seen) ==
    IF i > Len(s) THEN <<>>
    ELSE IF s[i] \in seen THEN UniqueFrom(s, i + 1, seen)
    ELSE <<s[i]>> \o UniqueFrom(s, i + 1, seen \cup {s[i]})

Unique(s) == UniqueFrom(s, 1, {})

(***************************************************************************)
(* The stream and CSVProcessor._read_csv.                                  *)
(*                                                                         *)
(* A stream is [decodes, pos, errAt, table]: decodes[i] says whether       *)
(* pandas.read_csv of the whole stream with SUPPORTED_ENCODINGS[i] raises  *)
(* no error; pos is the current offset; errAt is the offset at which a     *)
(* failing read stops; table is the text of the CSV cells.                 *)
(***************************************************************************)
SUPPORTED_ENCODINGS == <<"utf-8", "utf-8-sig", "latin-1", "cp1250", "cp1252">>

\* file_content.seek(0): the offset the next read starts from
SeekNone(pos) == pos
Seek0(pos) == 0

\* pd.read_csv(file_content, encoding=...) started at offset `from`:
\* at the end of the stream there is nothing to parse (EmptyDataError);
\* otherwise the parse succeeds iff the bytes decode under the encoding.
PdReadCsvOk(stream, i, from) ==
    /\ from < StreamLen
    /\ stream.decodes[i]

\* the offset a read leaves the stream at
PdReadCsvPos(stream, i, from) ==
    IF PdReadCsvOk(stream, i, from) THEN StreamLen
    ELSE IF from < stream.errAt THEN stream.errAt ELSE from

\* The for loop of _read_csv from encoding number i on: the call's outcome
\* with the log of the attempts made.
RECURSIVE ReadCsvLoop(_, _, _, _)
ReadCsvLoop(stream, i, pos, attempts) ==
    IF i > Len(SUPPORTED_ENCODINGS)
    THEN [raised |-> "UnsupportedEncodingError", encoding |-> "", offset |-> 0,
          attempts |-> attempts, pos |-> pos]
    ELSE LET from == Seek0(pos)
             ok   == PdReadCsvOk(stream, i, from)
             log  == Append(attempts, [encoding |-> SUPPORTED_ENCODINGS[i],
                                       offset |-> from, ok |-> ok])
         IN  IF ok
             THEN [raised |-> "", encoding |-> SUPPORTED_ENCODINGS[i], offset |-> from,
                   attempts |-> log, pos |-> PdReadCsvPos(stream, i, from)]
             ELSE ReadCsvLoop(stream, i + 1, PdReadCsvPos(stream, i, from), log)

_read_csv(stream) == ReadCsvLoop(stream, 1, stream.pos, <<>>)

NoTable == <<>>

Decodings == [1..Len(SUPPORTED_ENCODINGS) -> BOOLEAN]

ReadStreams ==
    [decodes : Decodings, pos : 0..StreamLen, errAt : 1..StreamLen, table : {NoTable}]

(***************************************************************************)
(* Specification SpecRead: one call of _read_csv on an arbitrary stream.   *)
(***************************************************************************)
NoInput == <<>>

InitRead ==
    /\ pc = "call"
    /\ file_content \in ReadStreams
    /\ selected_grouping_columns = NoInput
    /\ data = NoInput
    /\ series = NoInput
    /\ scipy_finite = TRUE
    /\ ret = NoInput

ReadCsvCall ==
    /\ pc = "call"
    /\ ret' = _read_csv(file_content)
    /\ file_content' = [file_content EXCEPT !.pos = ret'.pos]
    /\ pc' = "done"
    /\ UNCHANGED <<selected_grouping_columns, data, series, scipy_finite>>

NextRead == ReadCsvCall

SpecRead == InitRead /\ [][NextRead]_vars

\* C1: _read_csv tries utf-8, utf-8-sig, latin-1, cp1250, cp1252 in that
\* order, each read starting at offset 0; it returns the table of the first
\* attempt that raises nothing and tries no encoding after it; it raises
\* UnsupportedEncodingError exactly when all five attempts raised.
C1_ReadCsvOrder ==
    pc = "done" =>
        LET log == ret.attempts
            n   == Len(log)
        IN  /\ n \in 1..Len(SUPPORTED_ENCODINGS)
            /\ \A i \in 1..n : /\ log[i].encoding = SUPPORTED_ENCODINGS[i]
                               /\ log[i].offset = 0
                               /\ log[i].ok = file_content.decodes[i]
            /\ \A i \in 1..(n - 1) : ~log[i].ok
            /\ (ret.raised = "") <=> log[n].ok
            /\ (ret.raised = "") => /\ ret.encoding = log[n].encoding
                                    /\ ret.offset = 0
            /\ ret.raised \in {"", "UnsupportedEncodingError"}
            /\ (ret.raised = "UnsupportedEncodingError")
                   <=> (n = Len(SUPPORTED_ENCODINGS) /\ \A i \in 1..n : ~log[i].ok)
            /\ (ret.raised = "UnsupportedEncodingError")
                   <=> (\A i \in 1..Len(SUPPORTED_ENCODINGS) : ~file_content.decodes[i])

\* a call that succeeded at its third attempt, and a call that raised
C1_Witness ==
    /\ pc = "done"
    /\ ret.raised = ""
    /\ Len(ret.attempts) = 3
    /\ ret.encoding = "latin-1"
    /\ ~ret.attempts[1].ok /\ ~ret.attempts[2].ok

(***************************************************************************)
(* Numbers.                                                                *)
(***************************************************************************)
Unit == 4 * 1000                 \* units per 1: a unit is 0.00025
PerMilli == Unit \div 1000       \* units per 0.001

NaN == [nan |-> TRUE, a |-> 0, k |-> 0]
Num(a, k) == [nan |-> FALSE, a |-> a, k |-> k]
Whole(n) == Num(n * Unit, 0)

\* x <= y on numbers; any comparison with NaN is false
NumLe(x, y) ==
    /\ ~x.nan /\ ~y.nan
    /\ \/ x.a < y.a
       \/ x.a = y.a /\ x.k <= y.k

LIKERT_MIN == 1
LIKERT_MAX == 5

\* (data >= 1) & (data <= 5)
InScaleNoLower(v) == NumLe(v, Whole(LIKERT_MAX))
InScale(v) == NumLe(Whole(LIKERT_MIN), v) /\ NumLe(v, Whole(LIKERT_MAX))

\* round(num/den units [+ a positive amount below any unit], 3), in thousandths
Round3(num, den, tiny) ==
    LET d == den * PerMilli
        q == num \div d
        r == num % d
    IN  IF 2 * r < d THEN q
        ELSE IF 2 * r > d THEN q + 1
        ELSE IF tiny THEN q + 1
        ELSE IF q % 2 = 0 THEN q ELSE q + 1

RECURSIVE SumA(_)
SumA(s) == IF s = <<>> THEN 0 ELSE Head(s).a + SumA(Tail(s))

RECURSIVE SumK(_)
SumK(s) == IF s = <<>> THEN 0 ELSE Head(s).k + SumK(Tail(s))

\* insertion of x into the ascending sequence s
RECURSIVE Insert(_, _)
Insert(x, s) ==
    IF s = <<>> THEN <<x>>
    ELSE IF NumLe(x, Head(s)) THEN <<x>> \o s
    ELSE <<Head(s)>> \o Insert(x, Tail(s))

RECURSIVE Sorted(_)
Sorted(s) == IF s = <<>> THEN <<>> ELSE Insert(Head(s), Sorted(Tail(s)))

\* sum over i < j of (a_i - a_j)^2  =  n * (sum of squared deviations)
RECURSIVE SqDiffTo(_, _)
SqDiffTo(x, s) ==
    IF s = <<>> THEN 0
    ELSE (x.a - Head(s).a) * (x.a - Head(s).a) + SqDiffTo(x, Tail(s))

RECURSIVE PairSqDiff(_)
PairSqDiff(s) ==
    IF s = <<>> THEN 0 ELSE SqDiffTo(Head(s), Tail(s)) + PairSqDiff(Tail(s))

\* the largest r in lo..hi with r = 0 or (2r-1)^2 <= q   (lo satisfies it)
RECURSIVE HalfRoot(_, _, _)
HalfRoot(q, lo, hi) ==
    IF lo >= hi THEN lo
    ELSE LET mid == (lo + hi + 1) \div 2
         IN  IF (2 * mid - 1) * (2 * mid - 1) <= q
             THEN HalfRoot(q, mid, hi)
             ELSE HalfRoot(q, lo, mid - 1)

(***************************************************************************)
(* StatisticsCalculator.calculate.                                         *)
(*                                                                         *)
(* A field of the returned record is [kind, milli]:                        *)
(*   "num"  a finite number, milli thousandths (computed by the model)     *)
(*   "lib"  a finite number computed by scipy.stats (value not modelled)   *)
(*   "nan"  NaN                                                            *)
(*   "-"    the string "-"                                                 *)
(***************************************************************************)
Finite(m) == [kind |-> "num", milli |-> m]
LibFinite == [kind |-> "lib", milli |-> 0]
NaNField == [kind |-> "nan", milli |-> 0]
Dash == [kind |-> "-", milli |-> 0]

StatsNone == [none |-> TRUE]

\* data[(data >= 1) & (data <= 5)].dropna()
ValidDataNoLower(d) == SelectSeq(d, InScaleNoLower)
ValidData(d) == SelectSeq(d, InScale)

\* np.mean(valid_data), rounded
MeanField(valid) == Finite(Round3(SumA(valid), Len(valid), SumK(valid) > 0))

\* np.median(valid_data), rounded
MedianField(valid) ==
    LET s == Sorted(valid)
        n == Len(s)
        h == n \div 2
    IN  IF n % 2 = 1
        THEN Finite(Round3(s[h + 1].a, 1, s[h + 1].k > 0))
        ELSE Finite(Round3(s[h].a + s[h + 1].a, 2, s[h].k + s[h + 1].k > 0))

\* np.std(valid_data, ddof=1): NaN for a single value (0/0), else
\* sqrt(sum of squared deviations / (n-1)); rounded
StdField(valid) ==
    LET n == Len(valid)
        c == ((PerMilli * PerMilli) \div 4) * n * (n - 1)
    IN  IF n = 1 THEN NaNField
        ELSE Finite(HalfRoot(PairSqDiff(valid) \div c, 0, 5 * 1000))

\* std > 1e-10.  Values that differ in a differ by at least 1/Unit, so std is
\* far above 1e-10; values that differ only in k (k in 0..1, steps of 1e-11)
\* have 0 < std < 1e-10; a single value has std NaN and NaN > 1e-10 is false.
StdPositive(valid) == \E i, j \in 1..Len(valid) : valid[i] # valid[j]
StdAboveEps(valid) == \E i, j \in 1..Len(valid) : valid[i].a # valid[j].a

SKEW_MIN_N == 3
KURT_MIN_N == 4
KS_MIN_N == 5

\* the three gates `n >= ... and std > 1e-10`
SkewGate(valid) == Len(valid) >= SKEW_MIN_N /\ StdAboveEps(valid)
KurtGate(valid) == Len(valid) >= KURT_MIN_N /\ StdAboveEps(valid)
KSGate(valid) == Len(valid) >= KS_MIN_N /\ StdAboveEps(valid)

\* a scipy result x followed by `if not np.isfinite(x): x = np.nan`, then
\* `round(x, 3) if np.isfinite(x) else "-"`
Rendered(gate, finite) == IF gate /\ finite THEN LibFinite ELSE Dash

\* calculate(data) with scipy's results finite or not as `lib` says
calculate(d, lib) ==
    LET valid_data == ValidData(d)
    IN  IF Len(valid_data) = 0 THEN StatsNone
        ELSE [none   |-> FALSE,
              N      |-> Len(valid_data),
              AS     |-> MeanField(valid_data),
              SD     |-> StdField(valid_data),
              Median |-> MedianField(valid_data),
              Ske    |-> Rendered(SkewGate(valid_data), lib.skew),
              Kur    |-> Rendered(KurtGate(valid_data), lib.kurtosis),
              MaxD   |-> Rendered(KSGate(valid_data), lib.kstest),
              KSp    |-> Rendered(KSGate(valid_data), lib.kstest)]

\* the values a series handed to calculate is drawn from: a missing entry,
\* 0 and 9 (outside the scale), 3, 3 + 1e-11, 4.00025
SampleValues ==
    {NaN, Whole(0), Whole(9), Whole(3), Num(3 * Unit, 1), Num(4 * Unit + 1, 0)}

LibOutcomes == {[skew |-> b, kurtosis |-> b, kstest |-> b] : b \in BOOLEAN}
              \cup {[skew |-> TRUE, kurtosis |-> FALSE, kstest |-> TRUE]}
AllFinite == [skew |-> TRUE, kurtosis |-> TRUE, kstest |-> TRUE]

(***************************************************************************)
(* Specification SpecStats: one call of calculate on an arbitrary series.  *)
(***************************************************************************)
InitStats ==
    /\ pc = "call"
    /\ file_content = NoInput
    /\ selected_grouping_columns = NoInput
    /\ data \in SeqsUpTo(SampleValues, MaxSample)
    /\ series = NoInput
    /\ scipy_finite \in LibOutcomes
    /\ ret = NoInput

CalculateCall ==
    /\ pc = "call"
    /\ ret' = calculate(data, scipy_finite)
    /\ pc' = "done"
    /\ UNCHANGED <<file_content, selected_grouping_columns, data, series, scipy_finite>>

NextStats == CalculateCall

SpecStats == InitStats /\ [][NextStats]_vars

\* the number of entries of d that are not missing and lie in [1,5]
RECURSIVE CountValid(_)
CountValid(d) ==
    IF d = <<>> THEN 0
    ELSE (IF ~Head(d).nan /\ Head(d).a >= Unit
             /\ (Head(d).a < 5 * Unit \/ (Head(d).a = 5 * Unit /\ Head(d).k = 0))
          THEN 1 ELSE 0) + CountValid(Tail(d))

IsNumberOrDash(f) == f.kind \in {"num", "lib", "-"}

\* C2 (as claimed): every one of AS, SD, Median, Ske, Kur, Max D, K-S p is a
\* finite number or "-", never NaN; with one valid value SD is "-".
C2_NoNaNFields ==
    (pc = "done" /\ ~ret.none) =>
        /\ \A f \in {ret.AS, ret.SD, ret.Median, ret.Ske, ret.Kur, ret.MaxD, ret.KSp} :
               IsNumberOrDash(f)
        /\ (ret.N = 1 => ret.SD = Dash)

\* C8: calculate returns None exactly when no entry is non-missing and in
\* [1,5]; otherwise N is the number of such entries.
C8_NoneIffNoValid ==
    pc = "done" =>
        /\ ret.none <=> (CountValid(data) = 0)
        /\ ~ret.none => ret.N = CountValid(data)

\* a record whose N is smaller than the series: missing and out-of-range
\* entries were dropped
C8_Witness ==
    /\ pc = "done"
    /\ ~ret.none
    /\ ret.N = 2
    /\ Len(data) = 5
    /\ \E i \in 1..Len(data) : data[i] = NaN
    /\ \E i \in 1..Len(data) : data[i] = Whole(9)
    /\ \E i \in 1..Len(data) : data[i] = Whole(0)

\* the entries of d that are not missing and lie in [1,5]
RECURSIVE ValidEntries(_)
ValidEntries(d) ==
    IF d = <<>> THEN <<>>
    ELSE (IF ~Head(d).nan /\ Head(d).a >= Unit
             /\ (Head(d).a < 5 * Unit \/ (Head(d).a = 5 * Unit /\ Head(d).k = 0))
          THEN <<Head(d)>> ELSE <<>>) \o ValidEntries(Tail(d))

\* s <= 1e-10 for the sample standard deviation s of two or more values:
\* the values agree up to the 1e-11 steps
SmallDeviation(v) == \A i \in 1..Len(v) : v[i].a = v[1].a

AllEqual(v) == \A i \in 1..Len(v) : v[i] = v[1]

C7_Gates ==
    LET v == ValidEntries(data)
    IN  /\ (Len(v) < 3 \/ SmallDeviation(v)) => ret.Ske = Dash
        /\ (Len(v) < 4 \/ SmallDeviation(v)) => ret.Kur = Dash
        /\ (Len(v) < 5 \/ SmallDeviation(v)) => (ret.MaxD = Dash /\ ret.KSp = Dash)
        /\ AllEqual(v) => /\ ret.Ske = Dash /\ ret.Kur = Dash
                          /\ ret.MaxD = Dash /\ ret.KSp = Dash

\* C7 (as claimed): Ske is "-" when N < 3 or s <= 1e-10, Kur when N < 4 or
\* s <= 1e-10, Max D and K-S p when N < 5 or s <= 1e-10; when all valid
\* values are equal the four are "-" and AS and Median equal that value.
C7_AsClaimed ==
    (pc = "done" /\ ~ret.none) =>
        LET v == ValidEntries(data)
        IN  /\ C7_Gates
            /\ AllEqual(v) => /\ ret.AS.kind = "num" /\ ret.Median.kind = "num"
                              /\ v[1].k = 0
                              /\ ret.AS.milli * PerMilli = v[1].a
                              /\ ret.Median.milli * PerMilli = v[1].a

\* the thousandth nearest to x (halves to the even thousandth)
NearestMilli(x) ==
    CHOOSE m \in (x.a \div PerMilli)..(x.a \div PerMilli + 1) :
        LET lo == 2 * (m * PerMilli) - PerMilli
            hi == 2 * (m * PerMilli) + PerMilli
        IN  \/ lo < 2 * x.a /\ 2 * x.a < hi
            \/ 2 * x.a = hi /\ x.k = 0 /\ m % 2 = 0
            \/ 2 * x.a = lo /\ (x.k > 0 \/ m % 2 = 0)

\* C7 (amended): the gates as claimed; when all valid values are equal the
\* four are "-" and AS and Median equal that value rounded to 3 decimals.
C7_GatesAndRoundedMean ==
    (pc = "done" /\ ~ret.none) =>
        LET v == ValidEntries(data)
        IN  /\ C7_Gates
            /\ AllEqual(v) => /\ ret.AS = Finite(NearestMilli(v[1]))
                              /\ ret.Median = Finite(NearestMilli(v[1]))

\* [3,3,3]: N = 3, the four fields "-", AS = Median = 3.0; and a sample of
\* five values whose deviation is positive and below the gate
C7_Witness ==
    /\ pc = "done"
    /\ data = <<Whole(3), Whole(3), Whole(3)>>
    /\ ret.N = 3 /\ ret.Ske = Dash /\ ret.MaxD = Dash
    /\ ret.AS = Finite(3000) /\ ret.Median = Finite(3000)

C7_WitnessSmallDeviation ==
    /\ pc = "done"
    /\ ~ret.none
    /\ ret.N = 5
    /\ \E i, j \in 1..Len(data) : data[i] = Whole(3) /\ data[j] = Num(3 * Unit, 1)
    /\ ret.Ske = Dash
    /\ scipy_finite = AllFinite

(***************************************************************************)
(* Tables.                                                                 *)
(*                                                                         *)
(* The text of a CSV file is a sequence of columns [name, cells], cells a  *)
(* sequence of texts, "" an empty (missing) cell; all columns have the     *)
(* same number of cells and different names (read_csv renames duplicates). *)
(* read_csv turns a column whose non-empty cells all read as numbers into  *)
(* a numeric column (int64 when all cells are whole numbers and none is    *)
(* empty, float64 otherwise) and keeps any other column as strings (dtype  *)
(* object).                                                                *)
(* A cell of a DataFrame is [na, isnum, a, text]: a missing cell, a number *)
(* of a/Unit, or a string.                                                 *)
(***************************************************************************)
NA == [na |-> TRUE, isnum |-> FALSE, a |-> 0, text |-> ""]
NumCell(a) == [na |-> FALSE, isnum |-> TRUE, a |-> a, text |-> ""]
StrCell(t) == [na |-> FALSE, isnum |-> FALSE, a |-> 0, text |-> t]

\* the number a text reads as (NaN when it does not read as a number)
ParseNumber(t) ==
    CASE t = "0" -> Whole(0)
      [] t = "1" -> Whole(1)
      [] t = "2" -> Whole(2)
      [] t = "2.5" -> Num(2 * Unit + Unit \div 2, 0)
      [] t = "3" -> Whole(3)
      [] t = "4" -> Whole(4)
      [] t = "5" -> Whole(5)
      [] t = "6" -> Whole(6)
      [] t = "9" -> Whole(9)
      [] OTHER -> NaN

\* the texts that contain a semicolon
SemicolonTexts == {"x;y", "3;4"}

\* read_csv's column: dtype inference and conversion of the cells
ReadColumn(col) ==
    LET numeric == \A i \in 1..Len(col.cells) :
                       col.cells[i] = "" \/ ~ParseNumber(col.cells[i]).nan
    IN  [name  |-> col.name,
         dtype |-> IF ~numeric THEN "object"
                   ELSE IF \A i \in 1..Len(col.cells) :
                               /\ col.cells[i] # ""
                               /\ ParseNumber(col.cells[i]).a % Unit = 0
                        THEN "int64" ELSE "float64",
         cells |-> [i \in 1..Len(col.cells) |->
                       IF col.cells[i] = "" THEN NA
                       ELSE IF numeric THEN NumCell(ParseNumber(col.cells[i]).a)
                       ELSE StrCell(col.cells[i])]]

ReadTable(table) == [c \in 1..Len(table) |-> ReadColumn(table[c])]

\* len(df), df.columns
NRows(df) == IF Len(df) = 0 THEN 0 ELSE Len(df[1].cells)
Columns(df) == [c \in 1..Len(df) |-> df[c].name]

\* pd.to_numeric(series, errors="coerce")
ToNumeric(cell) ==
    IF cell.na THEN NaN
    ELSE IF cell.isnum THEN Num(cell.a, 0)
    ELSE ParseNumber(cell.text)

to_numeric(cells) == [i \in 1..Len(cells) |-> ToNumeric(cells[i])]

NotNaN(v) == ~v.nan
NotNA(cell) == ~cell.na

(***************************************************************************)
(* StatisticsCalculator.is_likert_column.                                  *)
(***************************************************************************)
MAX_DISTINCT == 5

is_likert_column_no_count(cells) ==
    LET valid_values  == SelectSeq(to_numeric(cells), NotNaN)
        unique_values == Unique(valid_values)
    IN  IF Len(valid_values) = 0 THEN FALSE
        ELSE \A i \in 1..Len(unique_values) : InScale(unique_values[i])
is_likert_column(cells) ==
    LET valid_values  == SelectSeq(to_numeric(cells), NotNaN)
        unique_values == Unique(valid_values)
    IN  IF Len(valid_values) = 0 THEN FALSE
        ELSE /\ \A i \in 1..Len(unique_values) : InScale(unique_values[i])
             /\ Len(unique_values) <= MAX_DISTINCT

(***************************************************************************)
(* Specification SpecLikert: one call of is_likert_column on a column read *)
(* from a CSV text column.                                                 *)
(***************************************************************************)
LikertTexts == <<"", "A", "0", "1", "2", "2.5", "3", "4", "5", "6">>

\* every text column of at most MaxRows cells, and every column that lists
\* the texts of a subset of LikertTexts once each
LikertColumns ==
    SeqsUpTo(Range(LikertTexts), MaxRows)
    \cup {SelectSeqIdx(LikertTexts, keep, 1) : keep \in [1..Len(LikertTexts) -> BOOLEAN]}

InitLikert ==
    /\ pc = "call"
    /\ file_content = NoInput
    /\ selected_grouping_columns = NoInput
    /\ data = NoInput
    /\ series \in {ReadColumn([name |-> "q", cells |-> c]) : c \in LikertColumns}
    /\ scipy_finite = TRUE
    /\ ret = NoInput

IsLikertCall ==
    /\ pc = "call"
    /\ ret' = is_likert_column(series.cells)
    /\ pc' = "done"
    /\ UNCHANGED <<file_content, selected_grouping_columns, data, series, scipy_finite>>

NextLikert == IsLikertCall

SpecLikert == InitLikert /\ [][NextLikert]_vars

\* the numbers of a column after coercion: the set of distinct non-missing
\* values, in units
CoercedValues(cells) ==
    {ToNumeric(cells[i]).a : i \in {j \in 1..Len(cells) : ~ToNumeric(cells[j]).nan}}

\* C5: is_likert_column is true iff the coerced column has a non-missing
\* value, every distinct non-missing value is in [1,5], and there are at
\* most 5 distinct non-missing values.
C5_LikertIff ==
    pc = "done" =>
        LET vals == CoercedValues(series.cells)
        IN  ret <=> /\ vals # {}
                    /\ \A v \in vals : 1 * Unit <= v /\ v <= 5 * Unit
                    /\ Cardinality(vals) <= 5

\* six distinct values, all inside [1,5]: not Likert
C5_Witness ==
    /\ pc = "done"
    /\ ret = FALSE
    /\ Cardinality(CoercedValues(series.cells)) = 6
    /\ \A v \in CoercedValues(series.cells) : 1 * Unit <= v /\ v <= 5 * Unit

\* a string column with numbers and a text in it that is Likert
C5_WitnessMixed ==
    /\ pc = "done"
    /\ ret = TRUE
    /\ series.dtype = "object"
    /\ Cardinality(CoercedValues(series.cells)) = 5

(***************************************************************************)
(* CSVProcessor.detect_groupable_columns and its helpers.                  *)
(***************************************************************************)
\* the DataFrame _read_csv returned
DataFrameOf(stream) == ReadTable(stream.table)

\* _find_likert_columns: the names of the Likert columns, in column order
RECURSIVE FindLikertFrom(_, _)
FindLikertFrom(df, c) ==
    IF c > Len(df) THEN <<>>
    ELSE (IF is_likert_column(df[c].cells) THEN <<df[c].name>> ELSE <<>>)
         \o FindLikertFrom(df, c + 1)

AllColumns(df) == Columns(df)
_find_likert_columns(df) == FindLikertFrom(df, 1)

\* not pd.api.types.is_numeric_dtype(series)
_is_categorical_column(col) == col.dtype = "object"

\* str(cell) contains ";"
ContainsSemicolon(cell) == ~cell.isnum /\ cell.text \in SemicolonTexts

MULTISELECT_NUM == 1
MULTISELECT_DEN == 10       \* threshold 0.1 = 1/10
UNIQUE_NUM == 9
UNIQUE_DEN == 10            \* threshold 0.9 = 9/10

\* (contains_semicolon / len(non_null)) > threshold
_is_multiselect_column(col) ==
    LET non_null == SelectSeq(col.cells, NotNA)
        contains_semicolon == Len(SelectSeq(non_null, ContainsSemicolon))
    IN  IF Len(non_null) = 0 THEN FALSE
        ELSE contains_semicolon * MULTISELECT_DEN > MULTISELECT_NUM * Len(non_null)

\* (n_unique / len(non_null)) >= threshold
UniquePerRowStrict(col) ==
    LET non_null == SelectSeq(col.cells, NotNA)
        n_unique == Len(Unique(non_null))
    IN  IF Len(non_null) = 0 THEN TRUE
        ELSE n_unique * UNIQUE_DEN > UNIQUE_NUM * Len(non_null)
_is_unique_per_row(col) ==
    LET non_null == SelectSeq(col.cells, NotNA)
        n_unique == Len(Unique(non_null))
    IN  IF Len(non_null) = 0 THEN TRUE
        ELSE n_unique * UNIQUE_DEN >= UNIQUE_NUM * Len(non_null)

\* the for loop of detect_groupable_columns from column c on
RECURSIVE GroupableFrom(_, _, _)
GroupableFrom(df, likert_columns, c) ==
    IF c > Len(df) THEN <<>>
    ELSE (IF \/ df[c].name \in likert_columns
             \/ ~_is_categorical_column(df[c])
             \/ _is_multiselect_column(df[c])
             \/ _is_unique_per_row(df[c])
          THEN <<>> ELSE <<df[c].name>>)
         \o GroupableFrom(df, likert_columns, c + 1)

detect_groupable_columns(stream) ==
    LET r  == _read_csv(stream)
        df == DataFrameOf(stream)
    IN  IF r.raised # "" THEN [raised |-> r.raised, value |-> <<>>]
        ELSE IF NRows(df) <= 1 THEN [raised |-> "", value |-> <<>>]
        ELSE [raised |-> "",
              value  |-> GroupableFrom(df, Range(_find_likert_columns(df)), 1)]

(***************************************************************************)
(* Specification SpecDetect: one call of detect_groupable_columns on a     *)
(* stream holding a table of two columns.                                  *)
(***************************************************************************)
DetectTexts == {"", "A", "B", "x;y", "3", "9"}
IdTexts == <<"id1", "id2", "id3", "id4", "id5", "id6", "id7", "id8">>

Rep(t, n) == [i \in 1..n |-> t]

\* m empty cells, s cells with a semicolon, d cells all different, r cells "A"
LongColumn(m, s, d, r) ==
    Rep("", m) \o Rep("x;y", s) \o SubSeq(IdTexts, 1, d) \o Rep("A", r)

\* every column of at most MaxRows cells over DetectTexts, and longer
\* columns around the two thresholds (1 of 10 cells with a semicolon, 9
\* distinct values in 10 cells)
DetectColumns ==
    SeqsUpTo(DetectTexts, MaxRows)
    \cup {LongColumn(m, s, d, r) :
              m \in 0..1, s \in 0..2, d \in {0, 7, 8}, r \in {0, 1, 2, 3, 8, 9}}

TwoColumnTables(pool) ==
    {<<[name |-> "c1", cells |-> p[1]], [name |-> "c2", cells |-> p[2]]>> :
         p \in {q \in pool \X pool : Len(q[1]) = Len(q[2])}}

\* a stream no encoding reads, one utf-8 reads, one only latin-1 and later read
Undecodable == [i \in 1..Len(SUPPORTED_ENCODINGS) |-> FALSE]
TableDecodings ==
    {[i \in 1..Len(SUPPORTED_ENCODINGS) |-> TRUE],
     [i \in 1..Len(SUPPORTED_ENCODINGS) |-> i >= 3]}

TableStreams(tables) ==
    [decodes : TableDecodings, pos : {0}, errAt : {1}, table : tables]
    \cup [decodes : {Undecodable}, pos : {0}, errAt : {1}, table : {NoTable}]

InitDetect ==
    /\ pc = "call"
    /\ file_content \in TableStreams(TwoColumnTables(DetectColumns))
    /\ selected_grouping_columns = NoInput
    /\ data = NoInput
    /\ series = NoInput
    /\ scipy_finite = TRUE
    /\ ret = NoInput

DetectCall ==
    /\ pc = "call"
    /\ ret' = detect_groupable_columns(file_content)
    /\ file_content' = [file_content EXCEPT !.pos = _read_csv(file_content).pos]
    /\ pc' = "done"
    /\ UNCHANGED <<selected_grouping_columns, data, series, scipy_finite>>

NextDetect == DetectCall

SpecDetect == InitDetect /\ [][NextDetect]_vars

\* counts over the non-missing cells of a column
NonMissing(col) == {i \in 1..Len(col.cells) : ~col.cells[i].na}
DistinctValues(col) == {col.cells[i] : i \in NonMissing(col)}
WithSemicolon(col) == {i \in NonMissing(col) : col.cells[i].text \in {"x;y", "3;4"}}

LikertByDefinition(col) ==
    LET vals == CoercedValues(col.cells)
    IN  /\ vals # {}
        /\ \A v \in vals : 1 * Unit <= v /\ v <= 5 * Unit
        /\ Cardinality(vals) <= 5

\* the groupable predicate of C6
GroupableByDefinition(col) ==
    /\ ~LikertByDefinition(col)
    /\ col.dtype = "object"
    /\ 10 * Cardinality(WithSemicolon(col)) <= Cardinality(NonMissing(col))
    /\ 10 * Cardinality(DistinctValues(col)) < 9 * Cardinality(NonMissing(col))

RECURSIVE NamesWhere(_, _)
NamesWhere(df, c) ==
    IF c > Len(df) THEN <<>>
    ELSE (IF GroupableByDefinition(df[c]) THEN <<df[c].name>> ELSE <<>>)
         \o NamesWhere(df, c + 1)

C3_SingleValueIncluded ==
    (pc = "done" /\ ret.raised = "") =>
        LET df == ReadTable(file_content.table)
        IN  NRows(df) > 1 =>
                \A c \in 1..Len(df) :
                    (df[c].dtype = "object" /\ Cardinality(DistinctValues(df[c])) = 1)
                        => df[c].name \in Range(ret.value)

\* C3 (as claimed, for the columns no other rule excludes): in a table of
\* more than one row every non-numeric column whose non-missing cells hold
\* exactly one distinct value, without ";", is returned by
\* detect_groupable_columns, whatever the number of missing cells.
C3_SingleValueNotUniquePerRow ==
    (pc = "done" /\ ret.raised = "") =>
        LET df == ReadTable(file_content.table)
        IN  NRows(df) > 1 =>
                \A c \in 1..Len(df) :
                    (/\ df[c].dtype = "object"
                     /\ Cardinality(DistinctValues(df[c])) = 1
                     /\ WithSemicolon(df[c]) = {})
                        => df[c].name \in Range(ret.value)

(***************************************************************************)
(* CSVProcessor.process and its helpers.                                   *)
(*                                                                         *)
(* A dict is a sequence of [key, val] in insertion order.  The key         *)
(* f"group_{idx}" is <<"group_", idx>>.                                    *)
(***************************************************************************)
Keys(dict) == {dict[i].key : i \in 1..Len(dict)}
Get(dict, k) == dict[CHOOSE i \in 1..Len(dict) : dict[i].key = k].val

\* `col_name not in df.columns`
NeverAbsent(df, name) == FALSE
ColumnAbsent(df, name) == name \notin Range(Columns(df))

\* df[name]: KeyError when no column has the name
Lookup(df, name) ==
    IF name \in Range(Columns(df))
    THEN [raised |-> "", col |-> df[CHOOSE c \in 1..Len(df) : df[c].name = name]]
    ELSE [raised |-> "KeyError", col |-> <<>>]

\* the for loop of _calculate_overall_statistics from likert_columns[i] on
RECURSIVE OverallFrom(_, _, _, _)
OverallFrom(df, likert_columns, i, lib) ==
    IF i > Len(likert_columns) THEN <<>>
    ELSE LET column      == likert_columns[i]
             numeric_col == to_numeric(Lookup(df, column).col.cells)
             stats_data  == calculate(numeric_col, lib)
         IN  (IF stats_data.none THEN <<>>
              ELSE <<[question |-> column, stats |-> stats_data]>>)
             \o OverallFrom(df, likert_columns, i + 1, lib)

_calculate_overall_statistics(df, likert_columns, lib) ==
    OverallFrom(df, likert_columns, 1, lib)

\* df[df[group_col] == value][column]: the cells of `column` in the rows
\* where group_col holds `value`
RowsAll(group, value) == [i \in 1..Len(group.cells) |-> TRUE]
RowsWhere(group, value) == [i \in 1..Len(group.cells) |-> group.cells[i] = value]

GroupCells(df, group, value, column) ==
    SelectSeqIdx(Lookup(df, column).col.cells, RowsWhere(group, value), 1)

\* the inner for loop of _calculate_group_statistics
RECURSIVE GroupStatsFrom(_, _, _, _, _, _)
GroupStatsFrom(df, group, value, likert_columns, i, lib) ==
    IF i > Len(likert_columns) THEN <<>>
    ELSE LET column      == likert_columns[i]
             numeric_col == to_numeric(GroupCells(df, group, value, column))
             stats_data  == calculate(numeric_col, lib)
         IN  (IF stats_data.none THEN <<>>
              ELSE <<[question |-> column, stats |-> stats_data]>>)
             \o GroupStatsFrom(df, group, value, likert_columns, i + 1, lib)

\* the outer for loop of _calculate_group_statistics
RECURSIVE GroupResultsFrom(_, _, _, _, _, _)
GroupResultsFrom(df, group, unique_values, likert_columns, v, lib) ==
    IF v > Len(unique_values) THEN <<>>
    ELSE LET value       == unique_values[v]
             group_stats == GroupStatsFrom(df, group, value, likert_columns, 1, lib)
         IN  (IF group_stats = <<>> THEN <<>>
              ELSE <<[key |-> value, val |-> group_stats]>>)
             \o GroupResultsFrom(df, group, unique_values, likert_columns, v + 1, lib)

_calculate_group_statistics(df, group, unique_values, likert_columns, lib) ==
    GroupResultsFrom(df, group, unique_values, likert_columns, 1, lib)

\* str(value) of a cell of a column, and its place in the order of strings
StrOf(cell) ==
    IF ~cell.isnum THEN cell.text
    ELSE CASE cell.a = 0 * Unit -> "0"
           [] cell.a = 1 * Unit -> "1"
           [] cell.a = 2 * Unit -> "2"
           [] cell.a = 2 * Unit + Unit \div 2 -> "2.5"
           [] cell.a = 3 * Unit -> "3"
           [] cell.a = 4 * Unit -> "4"
           [] cell.a = 5 * Unit -> "5"
           [] cell.a = 6 * Unit -> "6"
           [] cell.a = 9 * Unit -> "9"

\* the texts of the model in the order of Python's string comparison
TextOrder ==
    <<"0", "1", "2", "2.5", "3", "3;4", "4", "5", "6", "9", "A", "B",
      "id1", "id2", "id3", "id4", "id5", "id6", "id7", "id8", "x;y">>

StrRank(cell) == CHOOSE i \in 1..Len(TextOrder) : TextOrder[i] = StrOf(cell)

\* sorted(unique_values, key=str)
RECURSIVE InsertByStr(_, _)
InsertByStr(x, s) ==
    IF s = <<>> THEN <<x>>
    ELSE IF StrRank(x) < StrRank(Head(s)) THEN <<x>> \o s
    ELSE <<Head(s)>> \o InsertByStr(x, Tail(s))

Unsorted(s) == s
RECURSIVE SortedByStr(_)
SortedByStr(s) ==
    IF s = <<>> THEN <<>>
    ELSE InsertByStr(s[Len(s)], SortedByStr(SubSeq(s, 1, Len(s) - 1)))

GroupKeyReused(idx, made) == <<"group_", made>>
GroupKey(idx, made) == <<"group_", idx>>

\* the for loop of _calculate_grouped_statistics from selected_columns[i]
\* on (idx = i - 1), with the results so far
RECURSIVE GroupedFrom(_, _, _, _, _, _, _)
GroupedFrom(df, likert_columns, selected_columns, i, grouped_results, available_groupings, lib) ==
    IF i > Len(selected_columns)
    THEN [raised |-> "", grouped |-> grouped_results, groupings |-> available_groupings]
    ELSE LET col_name == selected_columns[i]
         IN  IF ColumnAbsent(df, col_name)
             THEN GroupedFrom(df, likert_columns, selected_columns, i + 1,
                              grouped_results, available_groupings, lib)
             ELSE LET found == Lookup(df, col_name) IN
                  IF found.raised # ""
                  THEN [raised |-> found.raised, grouped |-> <<>>, groupings |-> <<>>]
                  ELSE LET unique_values == Unique(SelectSeq(found.col.cells, NotNA)) IN
                       IF unique_values = <<>>
                       THEN GroupedFrom(df, likert_columns, selected_columns, i + 1,
                                        grouped_results, available_groupings, lib)
                       ELSE LET group_key == GroupKey(i - 1, Len(grouped_results))
                                descr == [label  |-> col_name,
                                          column |-> col_name,
                                          values |-> SortedByStr(unique_values)]
                                stats == _calculate_group_statistics(
                                             df, found.col, unique_values,
                                             likert_columns, lib)
                            IN  GroupedFrom(df, likert_columns, selected_columns, i + 1,
                                    Append(grouped_results,
                                           [key |-> group_key, val |-> stats]),
                                    Append(available_groupings,
                                           [key |-> group_key, val |-> descr]),
                                    lib)

_calculate_grouped_statistics(df, likert_columns, selected_columns, lib) ==
    GroupedFrom(df, likert_columns, selected_columns, 1, <<>>, <<>>, lib)

process(stream, selected, lib) ==
    LET r == _read_csv(stream) IN
    IF r.raised # ""
    THEN [raised |-> r.raised, overall |-> <<>>, grouped |-> <<>>, groupings |-> <<>>]
    ELSE LET df             == DataFrameOf(stream)
             likert_columns == _find_likert_columns(df)
             overall        == _calculate_overall_statistics(df, likert_columns, lib)
             g              == _calculate_grouped_statistics(df, likert_columns,
                                                             selected, lib)
         IN  IF g.raised # ""
             THEN [raised |-> g.raised, overall |-> <<>>, grouped |-> <<>>,
                   groupings |-> <<>>]
             ELSE [raised |-> "", overall |-> overall, grouped |-> g.grouped,
                   groupings |-> g.groupings]

(***************************************************************************)
(* Specification SpecProcess: one call of process on a stream holding a    *)
(* table of the columns "q" and "g", with a list of selected names.        *)
(***************************************************************************)
ProcessTexts == {"", "A", "3", "9"}
SelectableNames == {"q", "g", "zz"}

ProcessTables ==
    {<<[name |-> "q", cells |-> p[1]], [name |-> "g", cells |-> p[2]]>> :
         p \in {x \in SeqsUpTo(ProcessTexts, MaxRows) \X SeqsUpTo(ProcessTexts, MaxRows) :
                    Len(x[1]) = Len(x[2])}}

ProcessStreams ==
    [decodes : {[i \in 1..Len(SUPPORTED_ENCODINGS) |-> i >= 3]}, pos : {0},
     errAt : {1}, table : ProcessTables]
    \cup [decodes : {Undecodable}, pos : {0}, errAt : {1}, table : {NoTable}]

InitProcess ==
    /\ pc = "call"
    /\ file_content \in ProcessStreams
    /\ selected_grouping_columns \in SeqsUpTo(SelectableNames, MaxSelected)
    /\ data = NoInput
    /\ series = NoInput
    /\ scipy_finite = AllFinite
    /\ ret = NoInput

ProcessCall ==
    /\ pc = "call"
    /\ ret' = process(file_content, selected_grouping_columns, scipy_finite)
    /\ file_content' = [file_content EXCEPT !.pos = _read_csv(file_content).pos]
    /\ pc' = "done"
    /\ UNCHANGED <<selected_grouping_columns, data, series, scipy_finite>>

NextProcess == ProcessCall

SpecProcess == InitProcess /\ [][NextProcess]_vars

Decodable(stream) == \E i \in 1..Len(SUPPORTED_ENCODINGS) : stream.decodes[i]

\* the column of the table with the given name
ColumnNamed(df, name) == df[CHOOSE c \in 1..Len(df) : df[c].name = name]
HasColumn(df, name) == \E c \in 1..Len(df) : df[c].name = name

\* a cell holds a valid answer: it reads as a number in [1,5]
ValidAnswer(cell) ==
    /\ ~ToNumeric(cell).nan
    /\ 1 * Unit <= ToNumeric(cell).a
    /\ ToNumeric(cell).a <= 5 * Unit

\* C4: process returns a result with overall, grouped and groupings, or
\* raises UnsupportedEncodingError, and nothing else; it raises only when no
\* encoding reads the stream, so a table without a Likert column, an absent
\* or all-missing selected column and a partition without a valid answer
\* all give a returned result.
C4_OnlyUnsupportedEncoding ==
    pc = "done" =>
        /\ ret.raised \in {"", "UnsupportedEncodingError"}
        /\ (ret.raised = "") <=> Decodable(file_content)
        /\ DOMAIN ret = {"raised", "overall", "grouped", "groupings"}

\* a returned, empty result for a table without a Likert column, with an
\* absent and an all-missing column selected
C4_Witness ==
    /\ pc = "done"
    /\ ret.raised = ""
    /\ selected_grouping_columns = <<"zz", "g">>
    /\ NRows(ReadTable(file_content.table)) = 2
    /\ \A i \in 1..2 : ReadTable(file_content.table)[2].cells[i].na
    /\ ret.overall = <<>> /\ ret.grouped = <<>> /\ ret.groupings = <<>>

\* a returned result with a partition that has no valid answer
C4_WitnessEmptyPartition ==
    /\ pc = "done"
    /\ ret.raised = ""
    /\ selected_grouping_columns = <<"g">>
    /\ ret.overall # <<>>
    /\ LET df == ReadTable(file_content.table)
       IN  \E i \in 1..NRows(df) :
               /\ ~df[2].cells[i].na
               /\ df[2].cells[i] \notin Keys(ret.grouped[1].val)

\* the positions of S that name a column with a non-missing cell
GroupedPositions(df, S) ==
    {i \in 1..Len(S) :
         /\ HasColumn(df, S[i])
         /\ \E r \in 1..NRows(df) : ~ColumnNamed(df, S[i]).cells[r].na}

\* C9: grouped and groupings have the same keys, exactly "group_i" for the
\* zero-based positions i of S that name a column with a non-missing cell;
\* column and label of groupings["group_i"] are S[i].
C9_GroupKeys ==
    (pc = "done" /\ ret.raised = "") =>
        LET df   == ReadTable(file_content.table)
            S    == selected_grouping_columns
            want == {<<"group_", i - 1>> : i \in GroupedPositions(df, S)}
        IN  /\ Keys(ret.grouped) = want
            /\ Keys(ret.groupings) = want
            /\ Len(ret.grouped) = Cardinality(want)
            /\ Len(ret.groupings) = Cardinality(want)
            /\ \A i \in GroupedPositions(df, S) :
                   /\ Get(ret.groupings, <<"group_", i - 1>>).column = S[i]
                   /\ Get(ret.groupings, <<"group_", i - 1>>).label = S[i]

\* the first selected name is skipped and the second keeps its position
C9_Witness ==
    /\ pc = "done"
    /\ ret.raised = ""
    /\ Len(selected_grouping_columns) = 2
    /\ selected_grouping_columns[1] = "zz"
    /\ Keys(ret.grouped) = {<<"group_", 1>>}
    /\ Keys(ret.groupings) = {<<"group_", 1>>}

\* the rows where column c holds v and column q holds a valid answer
RowsOf(df, c, v, q) ==
    {r \in 1..NRows(df) :
         /\ ColumnNamed(df, c).cells[r] = v
         /\ ValidAnswer(ColumnNamed(df, q).cells[r])}

\* the rows where column c is not missing and column q holds a valid answer
RowsGrouped(df, c, q) ==
    {r \in 1..NRows(df) :
         /\ ~ColumnNamed(df, c).cells[r].na
         /\ ValidAnswer(ColumnNamed(df, q).cells[r])}

\* N of question q in a list of records (0 when q has no record)
RECURSIVE NOf(_, _)
NOf(records, q) ==
    IF records = <<>> THEN 0
    ELSE (IF Head(records).question = q THEN Head(records).stats.N ELSE 0)
         + NOf(Tail(records), q)

RECURSIVE SumNOf(_, _)
SumNOf(groups, q) ==
    IF groups = <<>> THEN 0 ELSE NOf(Head(groups).val, q) + SumNOf(Tail(groups), q)

\* C10: a record of grouped[k][v] for question q has N = the number of rows
\* with c = v and a valid q; for every question the N summed over the group
\* values of k is the number of rows with a non-missing c and a valid q, and
\* is at most the N of q in overall.
C10_GroupRows ==
    (pc = "done" /\ ret.raised = "") =>
        LET df == ReadTable(file_content.table)
        IN  \A g \in 1..Len(ret.grouped) :
                LET c      == Get(ret.groupings, ret.grouped[g].key).column
                    groups == ret.grouped[g].val
                IN  /\ \A v \in 1..Len(groups) : \A r \in 1..Len(groups[v].val) :
                           groups[v].val[r].stats.N
                               = Cardinality(RowsOf(df, c, groups[v].key,
                                                    groups[v].val[r].question))
                    /\ \A o \in 1..Len(ret.overall) :
                           LET q == ret.overall[o].question
                           IN  /\ SumNOf(groups, q) = Cardinality(RowsGrouped(df, c, q))
                               /\ SumNOf(groups, q) <= ret.overall[o].stats.N

\* two groups of one row each: their N add up to the N of overall
C10_Witness ==
    /\ pc = "done"
    /\ ret.raised = ""
    /\ selected_grouping_columns = <<"g">>
    /\ Len(ret.grouped) = 1
    /\ Len(ret.grouped[1].val) = 2
    /\ Len(ret.overall) = 1
    /\ SumNOf(ret.grouped[1].val, "q") = 2
    /\ ret.overall[1].stats.N = 2

\* the questions of the table: the names of its Likert columns
Questions(df) == {df[c].name : c \in {d \in 1..Len(df) : LikertByDefinition(df[d])}}

\* a sequence without repetition
NoRepeat(s) == \A i, j \in 1..Len(s) : s[i] = s[j] => i = j

\* a sequence of cells in the order of their text representation
OrderedByStr(s) == \A i \in 1..(Len(s) - 1) : StrRank(s[i]) <= StrRank(s[i + 1])

\* C11: for every grouping key k of column c, a distinct non-missing value v
\* of c is a key of grouped[k] iff some Likert question has a valid answer
\* in the rows with c = v; every key of grouped[k] is in
\* groupings[k].values; groupings[k].values lists every distinct
\* non-missing value of c exactly once, the omitted ones included, in the
\* order of the text representation.
C11_GroupValues ==
    (pc = "done" /\ ret.raised = "") =>
        LET df        == ReadTable(file_content.table)
            questions == {c \in 1..Len(df) : LikertByDefinition(df[c])}
        IN  \A g \in 1..Len(ret.grouped) :
                LET descr  == Get(ret.groupings, ret.grouped[g].key)
                    col    == ColumnNamed(df, descr.column)
                    groups == ret.grouped[g].val
                    keys   == Keys(groups)
                IN  /\ \A v \in DistinctValues(col) :
                           v \in keys
                               <=> \E q \in questions : \E r \in 1..NRows(df) :
                                       /\ col.cells[r] = v
                                       /\ ValidAnswer(df[q].cells[r])
                    /\ keys \subseteq Range(descr.values)
                    /\ Range(descr.values) = DistinctValues(col)
                    /\ NoRepeat(descr.values)
                    /\ OrderedByStr(descr.values)

\* the column g holds "A" then "9"; only the row of "A" has a valid
\* answer, and values lists "9" before "A"
C11_Witness ==
    /\ pc = "done"
    /\ ret.raised = ""
    /\ selected_grouping_columns = <<"g">>
    /\ Len(ret.grouped) = 1
    /\ Keys(ret.grouped[1].val) = {StrCell("A")}
    /\ ret.groupings[1].val.values = <<StrCell("9"), StrCell("A")>>
    /\ ReadTable(file_content.table)[2].cells = <<StrCell("A"), StrCell("9")>>

\* the names of the Likert columns of the table from column c on
RECURSIVE LikertNames(_, _)
LikertNames(df, c) ==
    IF c > Len(df) THEN <<>>
    ELSE (IF LikertByDefinition(df[c]) THEN <<df[c].name>> ELSE <<>>)
         \o LikertNames(df, c + 1)

\* C12: overall has exactly one entry for every Likert column of the table
\* and none for any other column, in table column order, each entry a
\* record of calculate; overall is empty iff the table has no Likert column.
C12_OverallLikert ==
    (pc = "done" /\ ret.raised = "") =>
        LET df == ReadTable(file_content.table)
        IN  /\ [o \in 1..Len(ret.overall) |-> ret.overall[o].question]
                   = LikertNames(df, 1)
            /\ \A o \in 1..Len(ret.overall) :
                   /\ ~ret.overall[o].stats.none
                   /\ ret.overall[o].stats.N >= 1
            /\ (ret.overall = <<>>) <=> (Questions(df) = {})

\* q is a Likert column, g holds a valid answer next to a 9 and is none
C12_Witness ==
    /\ pc = "done"
    /\ ret.raised = ""
    /\ Len(ret.overall) = 1
    /\ ret.overall[1].question = "q"
    /\ ReadTable(file_content.table)[2].cells = <<NumCell(3 * Unit), NumCell(9 * Unit)>>

\* both columns are Likert columns and overall keeps the column order
C12_WitnessOrder ==
    /\ pc = "done"
    /\ ret.raised = ""
    /\ Len(ret.overall) = 2
    /\ ret.overall[1].question = "q"
    /\ ret.overall[2].question = "g"

(***************************************************************************)
(* The result as a JSON document and back (json.dumps, request.get_json).  *)
(*                                                                         *)
(* A JSON atom is [json, kind, milli, cell]: a number, a string holding    *)
(* the text of a cell, or the token NaN that json.dumps writes for a float *)
(* NaN.  Objects keep the insertion order of the dict; an object key is    *)
(* always a string: json.dumps writes str(key) for a number key.  Arrays   *)
(* keep numbers as numbers.                                                *)
(***************************************************************************)
JsonNumber(kind, milli) == [json |-> "number", kind |-> kind, milli |-> milli, cell |-> NA]
JsonString(cell) == [json |-> "string", kind |-> "", milli |-> 0, cell |-> StrCell(StrOf(cell))]
JsonNaN == [json |-> "NaN", kind |-> "", milli |-> 0, cell |-> NA]

StatNames == {"AS", "SD", "Median", "Ske", "Kur", "MaxD", "KSp"}

\* a statistic field: a float, a float NaN or the str "-"
DumpField(f) ==
    CASE f.kind = "-"   -> JsonString(StrCell("-"))
      [] f.kind = "nan" -> JsonNaN
      [] OTHER          -> JsonNumber(f.kind, f.milli)

LoadField(j) ==
    CASE j.json = "number" -> [kind |-> j.kind, milli |-> j.milli]
      [] j.json = "NaN"    -> NaNField
      [] j.json = "string" -> Dash

\* an entry of a list: a number stays a number, a str a string
DumpValue(cell) == IF cell.isnum THEN JsonNumber("cell", cell.a) ELSE JsonString(cell)
LoadValue(j) == IF j.json = "number" THEN NumCell(j.milli) ELSE j.cell

DumpRecord(rec) ==
    [question |-> JsonString(StrCell(rec.question)),
     N        |-> JsonNumber("int", rec.stats.N),
     fields   |-> [f \in StatNames |-> DumpField(rec.stats[f])]]

LoadRecord(j) ==
    [question |-> j.question.cell.text,
     stats    |-> [none   |-> FALSE,
                   N      |-> j.N.milli,
                   AS     |-> LoadField(j.fields["AS"]),
                   SD     |-> LoadField(j.fields["SD"]),
                   Median |-> LoadField(j.fields["Median"]),
                   Ske    |-> LoadField(j.fields["Ske"]),
                   Kur    |-> LoadField(j.fields["Kur"]),
                   MaxD   |-> LoadField(j.fields["MaxD"]),
                   KSp    |-> LoadField(j.fields["KSp"])]]

DumpRecords(records) == [r \in 1..Len(records) |-> DumpRecord(records[r])]
LoadRecords(js) == [r \in 1..Len(js) |-> LoadRecord(js[r])]

\* json.dumps of the result of process; a key of a dict is written as a
\* string whatever its type
Dumps(result) ==
    [overall   |-> DumpRecords(result.overall),
     grouped   |-> [g \in 1..Len(result.grouped) |->
                       [key |-> result.grouped[g].key,
                        val |-> [v \in 1..Len(result.grouped[g].val) |->
                                    [key |-> JsonString(result.grouped[g].val[v].key),
                                     val |-> DumpRecords(result.grouped[g].val[v].val)]]]],
     groupings |-> [g \in 1..Len(result.groupings) |->
                       [key |-> result.groupings[g].key,
                        val |-> [label  |-> result.groupings[g].val.label,
                                 column |-> result.groupings[g].val.column,
                                 values |-> [i \in 1..Len(result.groupings[g].val.values) |->
                                                DumpValue(result.groupings[g].val.values[i])]]]]]

\* the parsed document
Loads(doc) ==
    [raised    |-> "",
     overall   |-> LoadRecords(doc.overall),
     grouped   |-> [g \in 1..Len(doc.grouped) |->
                       [key |-> doc.grouped[g].key,
                        val |-> [v \in 1..Len(doc.grouped[g].val) |->
                                    [key |-> doc.grouped[g].val[v].key.cell,
                                     val |-> LoadRecords(doc.grouped[g].val[v].val)]]]],
     groupings |-> [g \in 1..Len(doc.groupings) |->
                       [key |-> doc.groupings[g].key,
                        val |-> [label  |-> doc.groupings[g].val.label,
                                 column |-> doc.groupings[g].val.column,
                                 values |-> [i \in 1..Len(doc.groupings[g].val.values) |->
                                                LoadValue(doc.groupings[g].val.values[i])]]]]]

\* == of two statistic fields: a float NaN equals nothing, itself included
EqualField(a, b) == a = b /\ a.kind # "nan"

EqualRecords(xs, ys) ==
    /\ Len(xs) = Len(ys)
    /\ \A i \in 1..Len(xs) :
           /\ xs[i].question = ys[i].question
           /\ xs[i].stats.N = ys[i].stats.N
           /\ \A f \in StatNames : EqualField(xs[i].stats[f], ys[i].stats[f])

\* the same keys in the same order with equal values
EqualGroups(xs, ys) ==
    /\ Len(xs) = Len(ys)
    /\ \A i \in 1..Len(xs) :
           /\ xs[i].key = ys[i].key
           /\ EqualRecords(xs[i].val, ys[i].val)

EqualGrouped(xs, ys) ==
    /\ Len(xs) = Len(ys)
    /\ \A i \in 1..Len(xs) :
           /\ xs[i].key = ys[i].key
           /\ EqualGroups(xs[i].val, ys[i].val)

EqualResult(x, y) ==
    /\ EqualRecords(x.overall, y.overall)
    /\ EqualGrouped(x.grouped, y.grouped)
    /\ x.groupings = y.groupings

\* every record of a result
RecordsOf(result) ==
    Range(result.overall)
        \cup UNION {UNION {Range(result.grouped[g].val[v].val) :
                               v \in 1..Len(result.grouped[g].val)} :
                        g \in 1..Len(result.grouped)}

\* no statistic field of the result is NaN
FiniteFields(result) ==
    \A rec \in RecordsOf(result) : \A f \in StatNames : rec.stats[f].kind # "nan"

\* every group-value key and every entry of values is a string
StringKeys(result) ==
    /\ \A g \in 1..Len(result.grouped) : \A v \in 1..Len(result.grouped[g].val) :
           ~result.grouped[g].val[v].key.isnum
    /\ \A g \in 1..Len(result.groupings) :
           \A i \in 1..Len(result.groupings[g].val.values) :
               ~result.groupings[g].val.values[i].isnum

\* C13: serializing a result of process to the JSON shape and parsing it
\* back gives an equal structure: the same question order, the same group
\* keys and group-value keys in the same order, the same numbers, every
\* undefined field "-"; every group-value key and every entry of values is
\* a string and every statistic field a finite number or "-".
C13_RoundTrip ==
    (pc = "done" /\ ret.raised = "") =>
        /\ EqualResult(Loads(Dumps(ret)), ret)
        /\ StringKeys(ret)
        /\ FiniteFields(ret)

\* C13 for the results without a NaN field: the round trip on its own
C13_RoundTripFiniteFields ==
    (pc = "done" /\ ret.raised = "" /\ FiniteFields(ret)) =>
        EqualResult(Loads(Dumps(ret)), ret)

\* a result with string keys and finite fields does come back equal
C13_StringKeysRoundTrip ==
    (pc = "done" /\ ret.raised = "" /\ FiniteFields(ret) /\ StringKeys(ret)) =>
        EqualResult(Loads(Dumps(ret)), ret)

(***************************************************************************)
(* Specification SpecConcurrent: two requests in flight at once.  Each     *)
(* calls process or detect_groupable_columns on the stream of its own      *)
(* upload with a CSVProcessor of its own, one statement at a time, and may *)
(* call again on the same stream.  In this specification pc, file_content, *)
(* selected_grouping_columns, data (the locals of the call) and ret (the   *)
(* results returned so far) are functions of the invocation.               *)
(***************************************************************************)
Invocations == {"a", "b"}
MaxRuns == 2

\* the stream an invocation is handed: request.files["csv_file"] of its
\* own request
StreamShared(inv) == "a"
StreamOf(inv) == inv

\* the locals of a call that has not started
NoLocals(op) ==
    [op |-> op, encoding |-> 1, df |-> <<>>, likert_columns |-> <<>>,
     overall_results |-> <<>>, overlapped |-> FALSE]

ConcurrentTables ==
    {<<[name |-> "q", cells |-> <<"3", "">>], [name |-> "g", cells |-> <<"A", "A">>]>>,
     <<[name |-> "q", cells |-> <<"3", "3">>], [name |-> "g", cells |-> <<"A", "9">>]>>,
     <<[name |-> "q", cells |-> <<"3">>], [name |-> "g", cells |-> <<"A">>]>>}

ConcurrentStreams ==
    [decodes : {[i \in 1..Len(SUPPORTED_ENCODINGS) |-> i >= 3]}, pos : {0},
     errAt : {1}, table : ConcurrentTables]
    \cup [decodes : {Undecodable}, pos : {0}, errAt : {1}, table : {NoTable}]

InitConcurrent ==
    /\ pc = [inv \in Invocations |-> "call"]
    /\ file_content \in [Invocations -> ConcurrentStreams]
    /\ selected_grouping_columns \in [Invocations -> {<<>>, <<"g">>}]
    /\ data \in [Invocations -> {NoLocals("process"), NoLocals("detect_groupable_columns")}]
    /\ \A inv \in Invocations :
           data[inv].op = "detect_groupable_columns" => selected_grouping_columns[inv] = <<>>
    /\ series = NoInput
    /\ scipy_finite = AllFinite
    /\ ret = [inv \in Invocations |-> <<>>]

\* the invocation moves to `label` with the locals `locals`; overlapped
\* records that another invocation was between its call and its return
Goto(inv, label, locals) ==
    /\ pc' = [pc EXCEPT ![inv] = label]
    /\ data' = [data EXCEPT ![inv] =
                    [locals EXCEPT !.overlapped =
                         @ \/ \E o \in Invocations \ {inv} : pc[o] \notin {"call", "done"}]]

\* the result of a call that raised
RaisedResult(op, err) ==
    IF op = "process"
    THEN [raised |-> err, overall |-> <<>>, grouped |-> <<>>, groupings |-> <<>>]
    ELSE [raised |-> err, value |-> <<>>]

\* the invocation returns (or raises) `value`
Return(inv, value) ==
    /\ Goto(inv, "done", data[inv])
    /\ ret' = [ret EXCEPT ![inv] = Append(@, value)]

\* the call is entered
Call(inv) ==
    /\ pc[inv] = "call"
    /\ Goto(inv, "read", NoLocals(data[inv].op))
    /\ UNCHANGED <<file_content, selected_grouping_columns, series, scipy_finite, ret>>

\* one iteration of the for loop of _read_csv: seek(0) and read_csv
ReadAttempt(inv) ==
    /\ pc[inv] = "read"
    /\ LET s        == StreamOf(inv)
           stream   == file_content[s]
           encoding == data[inv].encoding
           from     == Seek0(stream.pos)
       IN  /\ file_content' = [file_content EXCEPT
                                  ![s].pos = PdReadCsvPos(stream, encoding, from)]
           /\ IF PdReadCsvOk(stream, encoding, from)
              THEN /\ Goto(inv, "likert", [data[inv] EXCEPT !.df = DataFrameOf(stream)])
                   /\ ret' = ret
              ELSE IF encoding < Len(SUPPORTED_ENCODINGS)
              THEN /\ Goto(inv, "read", [data[inv] EXCEPT !.encoding = encoding + 1])
                   /\ ret' = ret
              ELSE Return(inv, RaisedResult(data[inv].op, "UnsupportedEncodingError"))
    /\ UNCHANGED <<selected_grouping_columns, series, scipy_finite>>

\* likert_columns = self._find_likert_columns(df), after the row test of
\* detect_groupable_columns
FindLikert(inv) ==
    /\ pc[inv] = "likert"
    /\ LET df == data[inv].df
           op == data[inv].op
       IN  IF op = "detect_groupable_columns" /\ NRows(df) <= 1
           THEN Return(inv, [raised |-> "", value |-> <<>>])
           ELSE /\ Goto(inv, IF op = "process" THEN "overall" ELSE "groupable",
                        [data[inv] EXCEPT !.likert_columns = _find_likert_columns(df)])
                /\ ret' = ret
    /\ UNCHANGED <<file_content, selected_grouping_columns, series, scipy_finite>>

\* overall_results = self._calculate_overall_statistics(df, likert_columns)
Overall(inv) ==
    /\ pc[inv] = "overall"
    /\ Goto(inv, "grouped",
            [data[inv] EXCEPT !.overall_results =
                 _calculate_overall_statistics(data[inv].df, data[inv].likert_columns,
                                               scipy_finite)])
    /\ UNCHANGED <<file_content, selected_grouping_columns, series, scipy_finite, ret>>

\* self._calculate_grouped_statistics(...) and the return of process
Grouped(inv) ==
    /\ pc[inv] = "grouped"
    /\ LET g == _calculate_grouped_statistics(data[inv].df, data[inv].likert_columns,
                                              selected_grouping_columns[inv], scipy_finite)
       IN  Return(inv, IF g.raised # "" THEN RaisedResult("process", g.raised)
                       ELSE [raised    |-> "",
                             overall   |-> data[inv].overall_results,
                             grouped   |-> g.grouped,
                             groupings |-> g.groupings])
    /\ UNCHANGED <<file_content, selected_grouping_columns, series, scipy_finite>>

\* the for loop and the return of detect_groupable_columns
Groupable(inv) ==
    /\ pc[inv] = "groupable"
    /\ Return(inv, [raised |-> "",
                    value  |-> GroupableFrom(data[inv].df,
                                             Range(data[inv].likert_columns), 1)])
    /\ UNCHANGED <<file_content, selected_grouping_columns, series, scipy_finite>>

\* the same call is made again on the same stream
Repeat(inv) ==
    /\ pc[inv] = "done"
    /\ Len(ret[inv]) < MaxRuns
    /\ pc' = [pc EXCEPT ![inv] = "call"]
    /\ data' = [data EXCEPT ![inv] = NoLocals(data[inv].op)]
    /\ UNCHANGED <<file_content, selected_grouping_columns, series, scipy_finite, ret>>

NextConcurrent ==
    \E inv \in Invocations :
        \/ Call(inv)
        \/ ReadAttempt(inv)
        \/ FindLikert(inv)
        \/ Overall(inv)
        \/ Grouped(inv)
        \/ Groupable(inv)
        \/ Repeat(inv)

SpecConcurrent == InitConcurrent /\ [][NextConcurrent]_vars

\* the result of the invocation when it runs alone on its input
AloneResult(inv) ==
    IF data[inv].op = "process"
    THEN process(file_content[inv], selected_grouping_columns[inv], scipy_finite)
    ELSE detect_groupable_columns(file_content[inv])

\* every result returned so far is the result of the run alone
SameAsAlone == \A inv \in Invocations : \A r \in 1..Len(ret[inv]) : ret[inv][r] = AloneResult(inv)

\* a step changes the stream, the locals and the results of one invocation
OwnStateOnly ==
    \E inv \in Invocations : \A o \in Invocations \ {inv} :
        /\ file_content'[o] = file_content[o]
        /\ data'[o] = data[o]
        /\ ret'[o] = ret[o]
        /\ pc'[o] = pc[o]

None == [none |-> TRUE]
Some(x) == [none |-> FALSE, value |-> x]

MSG_NO_FILE == "Datoteka nije ucitana"
MSG_NO_NAME == "Datoteka nije odabrana"
MSG_NOT_CSV == "Molimo ucitajte CSV datoteku"
MSG_NO_LIKERT == "Nisu pronadena pitanja s Likertovom skalom (1-5) u CSV datoteci"
MSG_ENCODING == "Could not read file with any supported encoding"
MSG_UNEXPECTED == "Doslo je do neocekivane greske prilikom obrade datoteke"

\* filename.endswith(suffix)
EndsWith(name, suffix) ==
    /\ Len(name) >= Len(suffix)
    /\ SubSeq(name, Len(name) - Len(suffix) + 1, Len(name)) = suffix

CSV_SUFFIX == <<".", "c", "s", "v">>

\* `if not results["overall"]`: the error is set and results is reset
NoLikertKeepsResults(results) == [results |-> Some(results), error |-> Some(MSG_NO_LIKERT)]
NoLikertOutcome(results) == [results |-> None, error |-> Some(MSG_NO_LIKERT)]

\* the except clauses of the handler, for the exception class `raised`:
\* UnsupportedEncodingError carries its default message; no other
\* AppException is raised inside the try block, so every other class
\* reaches `except Exception`
Except(raised) ==
    IF raised = "UnsupportedEncodingError"
    THEN [results |-> None, error |-> Some(MSG_ENCODING)]
    ELSE [results |-> None, error |-> Some(MSG_UNEXPECTED)]

\* the body of analysis up to render_template: the values of results and
\* error handed to the template
analysis(request, stream, selected_groups, lib) ==
    IF request.method # "POST" THEN [results |-> None, error |-> None]
    ELSE IF ~request.has_file THEN [results |-> None, error |-> Some(MSG_NO_FILE)]
    ELSE IF request.filename = <<>> THEN [results |-> None, error |-> Some(MSG_NO_NAME)]
    ELSE IF ~EndsWith(request.filename, CSV_SUFFIX)
    THEN [results |-> None, error |-> Some(MSG_NOT_CSV)]
    ELSE IF request.fault # "" THEN Except(request.fault)
    ELSE LET results == process(stream, selected_groups, lib)
         IN  IF results.raised # "" THEN Except(results.raised)
             ELSE IF results.overall = <<>> THEN NoLikertOutcome(results)
             ELSE [results |-> Some(results), error |-> None]

\* process is called: the upload passed every test of the handler
ProcessCalled(request) ==
    /\ request.method = "POST"
    /\ request.has_file
    /\ request.filename # <<>>
    /\ EndsWith(request.filename, CSV_SUFFIX)
    /\ request.fault = ""

(***************************************************************************)
(* Specification SpecAnalysis: one request to the analysis handler.        *)
(***************************************************************************)
FileNames ==
    {<<>>, <<"d", ".", "c", "s", "v">>, <<".", "c", "s", "v">>, <<"d", ".", "t", "x", "t">>,
     <<"d", ".", "C", "S", "V">>, <<"c", "s", "v">>, <<".", "c", "s", "v", "x">>}

AnalysisRequests ==
    [method : {"GET", "POST"}, has_file : {FALSE}, filename : {<<>>}, fault : {""}]
    \cup [method : {"POST"}, has_file : {TRUE}, filename : FileNames,
          fault : {"", "Exception"}]

InitAnalysis ==
    /\ pc = "call"
    /\ data \in AnalysisRequests
    /\ file_content \in IF data.has_file THEN ProcessStreams
                       ELSE [decodes : {Undecodable}, pos : {0}, errAt : {1}, table : {NoTable}]
    /\ selected_grouping_columns \in {<<>>, <<"g">>}
    /\ series = NoInput
    /\ scipy_finite = AllFinite
    /\ ret = NoInput

AnalysisCall ==
    /\ pc = "call"
    /\ ret' = analysis(data, file_content, selected_grouping_columns, scipy_finite)
    /\ file_content' = IF ProcessCalled(data)
                       THEN [file_content EXCEPT !.pos = _read_csv(file_content).pos]
                       ELSE file_content
    /\ pc' = "done"
    /\ UNCHANGED <<selected_grouping_columns, data, series, scipy_finite>>

NextAnalysis == AnalysisCall

SpecAnalysis == InitAnalysis /\ [][NextAnalysis]_vars

\* the upload has a name ending in ".csv"
CsvUpload(request) ==
    /\ request.has_file
    /\ Len(request.filename) >= 4
    /\ [i \in 1..4 |-> request.filename[Len(request.filename) - 4 + i]] = <<".", "c", "s", "v">>

\* C15: when the template is rendered at most one of results and error is
\* set; an empty overall gives the no-Likert error and results None; a
\* missing, unnamed or non-.csv upload and any exception of process give
\* results None and an error; results is set only when process returned a
\* non-empty overall, and error is then None.
C15_ResultsOrError ==
    pc = "done" =>
        LET post   == data.method = "POST"
            called == post /\ CsvUpload(data) /\ data.fault = ""
            df     == ReadTable(file_content.table)
        IN  /\ ret.results.none \/ ret.error.none
            /\ (called /\ Decodable(file_content) /\ Questions(df) = {})
                   => (ret.results.none /\ ret.error = Some(MSG_NO_LIKERT))
            /\ (post /\ (~CsvUpload(data) \/ data.fault # "" \/ ~Decodable(file_content)))
                   => (ret.results.none /\ ~ret.error.none)
            /\ ~ret.results.none
                   => /\ called
                      /\ ret.error.none
                      /\ ret.results.value.raised = ""
                      /\ ret.results.value.overall # <<>>
                      /\ ret.results.value
                             = process(file_content, selected_grouping_columns, scipy_finite)
            /\ ~post => (ret.results.none /\ ret.error.none)

\* a .csv upload whose table has rows but no Likert column
C15_Witness ==
    /\ pc = "done"
    /\ data.method = "POST"
    /\ data.filename = <<"d", ".", "c", "s", "v">>
    /\ data.fault = ""
    /\ NRows(ReadTable(file_content.table)) = 2
    /\ ret.results.none
    /\ ret.error = Some(MSG_NO_LIKERT)

\* results is set and error is not
C15_WitnessResults ==
    /\ pc = "done"
    /\ ~ret.results.none
    /\ ret.error.none
    /\ ret.results.value.grouped # <<>>

(***************************************************************************)
(* The ai_analysis handler of routes.py and GeminiAIService.  A request is *)
(* [config, json, genai]: the GEMINI_ settings of the application, the     *)
(* posted JSON (None when there is none; a key that is absent is None) and *)
(* how the Gemini client library behaves: "ok", "client_raises" when       *)
(* genai.Client raises, "generate_raises" when generate_content raises.    *)
(***************************************************************************)
MSG_AI_DISABLED == "AI analiza nije omogucena."
MSG_AI_NO_DATA == "Nema podataka za analizu. Molimo prvo ucitajte CSV datoteku."
MSG_AI_ERROR == "Doslo je do pogreske s AI analizom. Molimo pokusajte kasnije."
MSG_AI_UNAVAILABLE == "AI analiza nije dostupna: "
DEFAULT_MODEL == "gemini-2.5-flash"

\* bool(x) of a posted value: None and the empty list or dict are false
Truthy(x) == ~x.none /\ x.value # <<>>

\* the parameters of GeminiAIService.__init__ besides self
InitParameters == {"api_key", "model"}

\* the keywords of the call GeminiAIService(api_key, model=..., fallback_models=...)
CallKeywords == {"model", "fallback_models"}

\* GeminiAIService(...): a keyword that is no parameter is a TypeError
GeminiAIService(keywords, api_key, model, genai) ==
    IF ~(keywords \subseteq InitParameters)
    THEN [raised |-> "TypeError", api_key |-> "", model |-> ""]
    ELSE IF genai = "client_raises"
    THEN [raised |-> "Exception", api_key |-> "", model |-> ""]
    ELSE [raised |-> "", api_key |-> api_key,
          model |-> IF model = "" THEN DEFAULT_MODEL ELSE model]

\* _build_prompt: the statistics the prompt holds
_build_prompt(overall_stats, grouped_stats, groupings_info) ==
    [overall |-> overall_stats,
     grouped |-> IF Truthy(grouped_stats) /\ Truthy(groupings_info)
                 THEN grouped_stats ELSE None]

\* interpret_results: the text of the response to the prompt, or the text
\* returned when generate_content raises
interpret_results(service, overall_stats, grouped_stats, groupings_info, genai) ==
    LET prompt == _build_prompt(overall_stats, grouped_stats, groupings_info)
    IN  IF genai = "generate_raises"
        THEN [text |-> MSG_AI_UNAVAILABLE, model |-> service.model, prompt |-> prompt,
              arguments |-> <<overall_stats, grouped_stats, groupings_info>>]
        ELSE [text |-> "response.text", model |-> service.model, prompt |-> prompt,
              arguments |-> <<overall_stats, grouped_stats, groupings_info>>]

ErrorResponse(status, message) ==
    [status |-> status, error |-> Some(message), interpretation |-> None]

\* ai_analysis: the status and the JSON body of the response
ai_analysis(request) ==
    LET ai_enabled == request.config.GEMINI_AI_ENABLED
        api_key    == request.config.GEMINI_API_KEY
        json       == request.json
    IN  IF ~ai_enabled \/ api_key = "" THEN ErrorResponse(400, MSG_AI_DISABLED)
        ELSE IF json.none \/ ~Truthy(json.value.overall)
        THEN ErrorResponse(400, MSG_AI_NO_DATA)
        ELSE LET model      == request.config.GEMINI_MODEL
                 ai_service == GeminiAIService(CallKeywords, api_key, model, request.genai)
             IN  IF ai_service.raised # "" THEN ErrorResponse(500, MSG_AI_ERROR)
                 ELSE [status |-> 200, error |-> None,
                       interpretation |->
                           Some(interpret_results(ai_service, json.value.overall.value,
                                                  json.value.grouped, json.value.groupings,
                                                  request.genai))]

(***************************************************************************)
(* Specification SpecAi: one request to the ai_analysis handler.           *)
(***************************************************************************)
PostedOverall == {None, Some(<<>>), Some(<<[question |-> "q", N |-> 2]>>)}
PostedGrouped ==
    {None, Some(<<>>),
     Some(<<[key |-> <<"group_", 0>>, val |-> <<[key |-> "A", val |-> <<[question |-> "q", N |-> 1]>>]>>]>>)}
PostedGroupings ==
    {None, Some(<<>>),
     Some(<<[key |-> <<"group_", 0>>, val |-> [label |-> "g", column |-> "g", values |-> <<"A">>]]>>)}

AiRequests ==
    [config : [GEMINI_AI_ENABLED : BOOLEAN, GEMINI_API_KEY : {"", "key"},
               GEMINI_MODEL : {"", "gemini-2.0-flash"},
               GEMINI_FALLBACK_MODELS : {<<>>, <<"gemini-2.0-flash-lite">>}],
     json   : {None} \cup {Some(j) : j \in [overall : PostedOverall, grouped : PostedGrouped,
                                            groupings : PostedGroupings]},
     genai  : {"ok", "client_raises", "generate_raises"}]

InitAi ==
    /\ pc = "call"
    /\ data \in AiRequests
    /\ file_content = NoInput
    /\ selected_grouping_columns = NoInput
    /\ series = NoInput
    /\ scipy_finite = TRUE
    /\ ret = NoInput

AiAnalysisCall ==
    /\ pc = "call"
    /\ ret' = ai_analysis(data)
    /\ pc' = "done"
    /\ UNCHANGED <<file_content, selected_grouping_columns, data, series, scipy_finite>>

NextAi == AiAnalysisCall

SpecAi == InitAi /\ [][NextAi]_vars

\* AI is enabled, a key is configured and the posted JSON has a non-empty
\* overall
AiRequested(request) ==
    /\ request.config.GEMINI_AI_ENABLED
    /\ request.config.GEMINI_API_KEY # ""
    /\ ~request.json.none
    /\ ~request.json.value.overall.none
    /\ request.json.value.overall.value # <<>>

\* C16: when AI is enabled, a key is configured and the posted JSON has a
\* non-empty overall, ai_analysis hands the posted overall, grouped and
\* groupings to interpret_results of a GeminiAIService and answers 200
\* with the interpretation; it answers 500 only when the service call
\* raises.
C16_Interpretation ==
    (pc = "done" /\ AiRequested(data)) =>
        /\ data.genai = "ok" =>
               /\ ret.status = 200
               /\ ~ret.interpretation.none
               /\ ret.interpretation.value.arguments
                      = <<data.json.value.overall.value, data.json.value.grouped,
                          data.json.value.groupings>>
        /\ ret.status = 500 => data.genai # "ok"

\* what the handler does instead: every such request is answered 500
C16_AlwaysError ==
    (pc = "done" /\ AiRequested(data)) =>
        (ret.status = 500 /\ ret.error = Some(MSG_AI_ERROR))

====
